---- MODULE Spec2Model ----
(***************************************************************************)
(* Model of provider.go of proxytv: the playlist reconciler                *)
(* (playlistLoader), the EPG streaming filter (Provider.loadXMLTv) and the *)
(* refresh cycle (Provider.Refresh) with its read accessors.               *)
(*                                                                         *)
(* Strings that the code inspects (track names, tag values, patterns) are  *)
(* sequences of one-character strings, so that strings.Contains and the    *)
(* regular-expression match are computed and not assumed.                  *)
(***************************************************************************)
EXTENDS Integers, Sequences, FiniteSets, TLC

(* ------------------------------ bounds -------------------------------- *)
\* longest playlist fed to one reconciliation run
MaxTracks == 4
\* longest configured filter list
MaxFilters == 2
\* longest playlist a refresh cycle reads
MaxPlaylist == 2
\* longest EPG stream, in elements
MaxEpg == 3
\* number of refresh cycles
MaxRefresh == 2

\* the most fragments a raw metadata line is put together from
MaxFrags == 4

(* ------------------------------ strings ------------------------------- *)
sESPN == <<"E", "S", "P", "N">>
sESPNHD == <<"E", "S", "P", "N", " ", "H", "D">>
sOther == <<"O", "t", "h", "e", "r">>
sOtherHD == <<"O", "t", "h", "e", "r", " ", "H", "D">>
sSports == <<"S", "p", "o", "r", "t", "s">>
sHD == <<"H", "D">>
sId1 == <<"1">>
sId2 == <<"2">>
sEmpty == <<>>
\* a raw-line fragment xui-id="{7}" followed by a blank
sXui == <<"x", "u", "i", "-", "i", "d", "=", "\"", "{", "7", "}", "\"", " ">>

\* strings.Contains(s, sub)
Contains(s, sub) ==
    \E i \in 0..(Len(s) - Len(sub)) : SubSeq(s, i + 1, i + Len(sub)) = sub

(* ------------------------------- tracks ------------------------------- *)
\* Track{Name, Tags}: Tags is a map from tag key to value; a key that is
\* not in the map reads as the empty string, as a Go map lookup does.
Tag(track, key) ==
    IF key \in DOMAIN track.Tags THEN track.Tags[key] ELSE sEmpty

MkTags(id, group, tvgname) ==
    [k \in ((IF id = sEmpty THEN {} ELSE {"tvg-id"})
            \cup (IF group = sEmpty THEN {} ELSE {"group-title"})
            \cup (IF tvgname = sEmpty THEN {} ELSE {"tvg-name"})) |->
        CASE k = "tvg-id" -> id
          [] k = "group-title" -> group
          [] OTHER -> tvgname]

\* a playlist entry as the parser hands it to OnTrack; tvg-name repeats the
\* display name, as the playlists this proxy reads write it. Raw is the
\* metadata line (here "#", the xui-id fragment of the entries of a group,
\* and the name) and URI the stream address
MkTrack(name, id, group) ==
    [Name |-> name, Tags |-> MkTags(id, group, name),
     Raw |-> <<"#">> \o (IF group = sEmpty THEN sEmpty ELSE sXui) \o name,
     URI |-> <<"u", id, group>>]

\* the tracks a playlist is drawn from
TrackPool ==
    { MkTrack(sESPN, sId1, sEmpty),
      MkTrack(sESPNHD, sId1, sEmpty),
      MkTrack(sESPNHD, sId1, sSports),
      MkTrack(sESPNHD, sId2, sSports),
      MkTrack(sOther, sId2, sEmpty),
      MkTrack(sOtherHD, sId1, sSports),
      MkTrack(sESPN, sEmpty, sEmpty) }

(* ------------------------------ filters ------------------------------- *)
\* mutant of Match: the pattern is not consulted
MatchAny(filter, val) == TRUE

\* Filter{Type, regexp}: the compiled pattern is an anchored literal ^lit
\* (the shape the configuration examples use); Match is regexp.Match on it
Match(filter, val) ==
    /\ Len(val) >= Len(filter.lit)
    /\ SubSeq(val, 1, Len(filter.lit)) = filter.lit

FilterPool ==
    { [Type |-> "name", lit |-> sESPN],
      [Type |-> "group", lit |-> sSports],
      [Type |-> "id", lit |-> sId1],
      [Type |-> "genre", lit |-> sESPN] }

\* the configured filter lists: no filter twice in a list
FilterLists ==
    UNION { { fs \in [1..n -> FilterPool] :
                \A i, j \in 1..n : fs[i] = fs[j] => i = j } : n \in 0..MaxFilters }

(* --------------------------- playlistLoader --------------------------- *)
VARIABLES
    baseAddress,  \* pl.baseAddress
    filters,      \* pl.filters
    tracks,       \* pl.tracks, the retained track list
    priorities,   \* pl.priorities, a map Name -> priority
    m3u,          \* pl.m3u, the rendered playlist as a sequence of lines
    phase,        \* "new" after construction, "run" while tracks arrive,
                  \* "done" after OnPlaylistEnd, "panic" after the
                  \* invalid-filter panic
    input,        \* history: the tracks handed to OnTrack so far
    calls,        \* history: the processTrack calls of the last OnTrack,
                  \* each with its priority and the loader state after it
    pre,          \* history: the loader state before the last OnTrack
    lowest        \* history: for each name, the lowest priority ever
                  \* recorded for it during the run

(* ------------------------------ Provider ------------------------------ *)
VARIABLES
    playlist,     \* p.playlist, the loader of the last parsed playlist
    epg,          \* p.epg
    epgData,      \* p.epgData
    lastRefresh,  \* p.lastRefresh
    pc,           \* where the running Refresh stands, or "idle"
    result,       \* what the last Refresh returned
    refreshes,    \* the number of Refresh calls so far (the clock)
    snap          \* history: what the accessors returned when the running
                  \* (or last) Refresh started, and whether a Refresh had
                  \* succeeded by then

(* ------------------------- Provider.loadXMLTv -------------------------- *)
VARIABLES
    stream,               \* the elements the decoder has yet to deliver
    seen,                 \* history: the elements delivered so far
    tvSetup,              \* tvSetup
    totalChannelCount,    \* totalChannelCount
    totalProgrammeCount,  \* totalProgrammeCount
    xret                  \* "loop" inside the loop, then "ok" (tvSetup is
                          \* returned) or "err" (nil and the error are)

(* ------------------------- stripping a raw line ------------------------ *)
VARIABLES
    trackRaw,     \* track.Raw, a metadata line
    fixedRaw,     \* fixedRaw, the line after reXuiid.ReplaceAllString
    fixedAgain,   \* the result of stripping fixedRaw once more
    passes        \* how many times the line has been stripped

plvars == <<baseAddress, filters, tracks, priorities, m3u, phase, input, calls, pre, lowest>>

pvars == <<playlist, epg, epgData, lastRefresh, pc, result, refreshes, snap>>

xvars == <<stream, seen, tvSetup, totalChannelCount, totalProgrammeCount, xret>>

svars == <<trackRaw, fixedRaw, fixedAgain, passes>>

vars == <<plvars, pvars, xvars, svars>>

\* the empty map, make(map[string]int)
EmptyMap == [n \in {} |-> 0]

MapPut(m, k, v) == [n \in (DOMAIN m) \cup {k} |-> IF n = k THEN v ELSE m[n]]

MapDelete(m, k) == [n \in (DOMAIN m) \ {k} |-> m[n]]

\* mutant of findIndexWithID: the scan starts at the second retained track
findIndexWithIDSkipFirst(trks, track) ==
    LET id == Tag(track, "tvg-id")
        hits == { i \in 2..Len(trks) : Tag(trks[i], "tvg-id") = id }
    IN  IF Len(id) = 0 THEN -1
        ELSE IF hits = {} THEN -1
        ELSE (CHOOSE i \in hits : \A j \in hits : i <= j) - 1

\* findIndexWithID: the zero-based index of the first retained track with
\* the track's non-empty tvg-id, or -1
findIndexWithID(trks, track) ==
    LET id == Tag(track, "tvg-id")
        hits == { i \in 1..Len(trks) : Tag(trks[i], "tvg-id") = id }
    IN  IF Len(id) = 0 THEN -1
        ELSE IF hits = {} THEN -1
        ELSE (CHOOSE i \in hits : \A j \in hits : i <= j) - 1

\* mutant of processTrack: an equal priority is admitted too
processTrackNoStrict(pl, track, priority) ==
    LET name == track.Name
        exists == name \in DOMAIN pl.priorities
    IN  IF (~exists) \/ priority <= pl.priorities[name]
        THEN LET idx == findIndexWithID(pl.tracks, track)
             IN  IF idx # -1
                 THEN IF Contains(track.Name, sHD)
                      THEN [tracks |-> [pl.tracks EXCEPT ![idx + 1] = track],
                            priorities |->
                                MapPut(MapDelete(pl.priorities, pl.tracks[idx + 1].Name),
                                       name, priority)]
                      ELSE pl
                 ELSE [tracks |-> IF ~exists THEN Append(pl.tracks, track)
                                  ELSE pl.tracks,
                       priorities |-> MapPut(pl.priorities, name, priority)]
        ELSE pl

\* mutant of processTrack: the replacement does not ask for "HD"
processTrackNoHD(pl, track, priority) ==
    LET name == track.Name
        exists == name \in DOMAIN pl.priorities
    IN  IF (~exists) \/ priority < pl.priorities[name]
        THEN LET idx == findIndexWithID(pl.tracks, track)
             IN  IF idx # -1
                 THEN IF TRUE
                      THEN [tracks |-> [pl.tracks EXCEPT ![idx + 1] = track],
                            priorities |->
                                MapPut(MapDelete(pl.priorities, pl.tracks[idx + 1].Name),
                                       name, priority)]
                      ELSE pl
                 ELSE [tracks |-> IF ~exists THEN Append(pl.tracks, track)
                                  ELSE pl.tracks,
                       priorities |-> MapPut(pl.priorities, name, priority)]
        ELSE pl

\* mutant of processTrack: the recorded priority is not consulted
processTrackNoPrioCheck(pl, track, priority) ==
    LET name == track.Name
        exists == name \in DOMAIN pl.priorities
    IN  IF TRUE
        THEN LET idx == findIndexWithID(pl.tracks, track)
             IN  IF idx # -1
                 THEN IF Contains(track.Name, sHD)
                      THEN [tracks |-> [pl.tracks EXCEPT ![idx + 1] = track],
                            priorities |->
                                MapPut(MapDelete(pl.priorities, pl.tracks[idx + 1].Name),
                                       name, priority)]
                      ELSE pl
                 ELSE [tracks |-> IF ~exists THEN Append(pl.tracks, track)
                                  ELSE pl.tracks,
                       priorities |-> MapPut(pl.priorities, name, priority)]
        ELSE pl

\* mutant of processTrack: a track of a recorded name that is admitted and
\* meets no retained tvg-id takes the place of the retained track of its name
processTrackReplaceByName(pl, track, priority) ==
    LET name == track.Name
        exists == name \in DOMAIN pl.priorities
        named == { k \in 1..Len(pl.tracks) : pl.tracks[k].Name = name }
    IN  IF (~exists) \/ priority < pl.priorities[name]
        THEN LET idx == findIndexWithID(pl.tracks, track)
             IN  IF idx # -1
                 THEN IF Contains(track.Name, sHD)
                      THEN [tracks |-> [pl.tracks EXCEPT ![idx + 1] = track],
                            priorities |->
                                MapPut(MapDelete(pl.priorities, pl.tracks[idx + 1].Name),
                                       name, priority)]
                      ELSE pl
                 ELSE [tracks |-> IF ~exists THEN Append(pl.tracks, track)
                                  ELSE [k \in 1..Len(pl.tracks) |->
                                           IF k \in named THEN track ELSE pl.tracks[k]],
                       priorities |-> MapPut(pl.priorities, name, priority)]
        ELSE pl

\* mutant of processTrack: an admitted track that meets no retained tvg-id
\* is appended whether or not its name is recorded
processTrackAlwaysAppend(pl, track, priority) ==
    LET name == track.Name
        exists == name \in DOMAIN pl.priorities
    IN  IF (~exists) \/ priority < pl.priorities[name]
        THEN LET idx == findIndexWithID(pl.tracks, track)
             IN  IF idx # -1
                 THEN IF Contains(track.Name, sHD)
                      THEN [tracks |-> [pl.tracks EXCEPT ![idx + 1] = track],
                            priorities |->
                                MapPut(MapDelete(pl.priorities, pl.tracks[idx + 1].Name),
                                       name, priority)]
                      ELSE pl
                 ELSE [tracks |-> Append(pl.tracks, track),
                       priorities |-> MapPut(pl.priorities, name, priority)]
        ELSE pl

\* processTrack on the loader state pl = [tracks, priorities]
processTrack(pl, track, priority) ==
    LET name == track.Name
        exists == name \in DOMAIN pl.priorities
    IN  IF (~exists) \/ priority < pl.priorities[name]
        THEN LET idx == findIndexWithID(pl.tracks, track)
             IN  IF idx # -1
                 THEN IF Contains(track.Name, sHD)
                      THEN [tracks |-> [pl.tracks EXCEPT ![idx + 1] = track],
                            priorities |->
                                MapPut(MapDelete(pl.priorities, pl.tracks[idx + 1].Name),
                                       name, priority)]
                      ELSE pl
                 ELSE [tracks |-> IF ~exists THEN Append(pl.tracks, track)
                                  ELSE pl.tracks,
                       priorities |-> MapPut(pl.priorities, name, priority)]
        ELSE pl

ValidTypes == {"id", "group", "name"}

filterField(type) ==
    CASE type = "id" -> "tvg-id"
      [] type = "group" -> "group-title"
      [] type = "name" -> "tvg-name"

\* the filter loop of OnTrack from filter index i (zero-based) on; the
\* result carries the processTrack calls made and whether the loop panicked
RECURSIVE filterLoop(_, _, _, _, _)
filterLoop(fs, pl, track, i, done) ==
    IF i >= Len(fs) THEN [pl |-> pl, calls |-> done, panicked |-> FALSE]
    ELSE LET filter == fs[i + 1]
         IN  IF filter.Type \notin ValidTypes
             THEN [pl |-> pl, calls |-> done, panicked |-> TRUE]
             ELSE LET val == Tag(track, filterField(filter.Type))
                  IN  IF Len(val) = 0 THEN filterLoop(fs, pl, track, i + 1, done)
                      ELSE IF Match(filter, val)
                      THEN LET after == processTrack(pl, track, i)
                           IN  filterLoop(fs, after, track, i + 1,
                                   Append(done, [priority |-> i, after |-> after]))
                      ELSE filterLoop(fs, pl, track, i + 1, done)

\* OnTrack as a function of the loader state
onTrack(fs, pl, track) ==
    IF Len(fs) = 0
    THEN LET after == processTrack(pl, track, 0)
         IN  [pl |-> after,
              calls |-> <<[priority |-> 0, after |-> after]>>,
              panicked |-> FALSE]
    ELSE filterLoop(fs, pl, track, 0, <<>>)

\* mutant of less: equal priorities compare as less
lessOrEqual(prio, a, b) ==
    LET existsI == a.Name \in DOMAIN prio
        existsJ == b.Name \in DOMAIN prio
    IN  IF (~existsI) /\ (~existsJ) THEN FALSE
        ELSE IF ~existsI THEN FALSE
        ELSE IF ~existsJ THEN TRUE
        ELSE prio[a.Name] <= prio[b.Name]

\* the comparator handed to sort.SliceStable: a and b are the tracks at
\* the two indexes compared
less(prio, a, b) ==
    LET existsI == a.Name \in DOMAIN prio
        existsJ == b.Name \in DOMAIN prio
    IN  IF (~existsI) /\ (~existsJ) THEN FALSE
        ELSE IF ~existsI THEN FALSE
        ELSE IF ~existsJ THEN TRUE
        ELSE prio[a.Name] < prio[b.Name]

\* sort.SliceStable on fewer than 20 elements is one insertion sort:
\*   for i := 1; i < n; i++ { for j := i; j > 0 && less(j, j-1); j-- { swap } }
RECURSIVE sinkDown(_, _, _)
sinkDown(prio, s, j) ==
    IF j > 1 /\ less(prio, s[j], s[j - 1])
    THEN sinkDown(prio, [s EXCEPT ![j] = s[j - 1], ![j - 1] = s[j]], j - 1)
    ELSE s

RECURSIVE insertionSort(_, _, _)
insertionSort(prio, s, i) ==
    IF i > Len(s) THEN s ELSE insertionSort(prio, sinkDown(prio, s, i), i + 1)

SliceStable(prio, s) == insertionSort(prio, s, 2)

(* rendering: reXuiid = xui-id="\{[^"]*\}"\s* and the loop of OnPlaylistEnd *)
sHeader == <<"#", "E", "X", "T", "M", "3", "U">>

sXuiOpen == <<"x", "u", "i", "-", "i", "d", "=", "\"", "{">>

IsSpace(c) == c \in {" ", "\t", "\n", "\f", "\r"}

\* the index of the first quote of raw at or after j, or 0
RECURSIVE nextQuote(_, _)
nextQuote(raw, j) ==
    IF j > Len(raw) THEN 0
    ELSE IF raw[j] = "\"" THEN j
    ELSE nextQuote(raw, j + 1)

\* the index after the run of white space of raw that starts at j
RECURSIVE skipSpace(_, _)
skipSpace(raw, j) ==
    IF j <= Len(raw) /\ IsSpace(raw[j]) THEN skipSpace(raw, j + 1) ELSE j

\* the index after the match of reXuiid that starts at i, or 0 when there
\* is none: the opening literal, then [^"]* up to a closing brace that
\* stands right before the next quote, then the white space that follows
matchXuiid(raw, i) ==
    LET n == Len(sXuiOpen)
    IN  IF i + n - 1 > Len(raw) \/ SubSeq(raw, i, i + n - 1) # sXuiOpen THEN 0
        ELSE LET q == nextQuote(raw, i + n)
             IN  IF q = 0 \/ q - 1 < i + n \/ raw[q - 1] # "}" THEN 0
                 ELSE skipSpace(raw, q + 1)

\* reXuiid.ReplaceAllString(raw, ""): the leftmost matches, left to right
RECURSIVE replaceAllXuiid(_, _)
replaceAllXuiid(raw, i) ==
    IF i > Len(raw) THEN <<>>
    ELSE LET e == matchXuiid(raw, i)
         IN  IF e = 0 THEN <<raw[i]>> \o replaceAllXuiid(raw, i + 1)
             ELSE replaceAllXuiid(raw, e)

\* mutant of trackURI: the index in the address is one-based
trackURIOneBased(base, track, i) ==
    IF Len(base) > 0 THEN <<"http://", base, "/channel/", i + 1>> ELSE track.URI

\* the address line of the track at zero-based index i
trackURI(base, track, i) ==
    IF Len(base) > 0 THEN <<"http://", base, "/channel/", i>> ELSE track.URI

\* the lines OnPlaylistEnd writes for the sorted list
RECURSIVE renderFrom(_, _, _)
renderFrom(base, trks, i) ==
    IF i >= Len(trks) THEN <<>>
    ELSE <<replaceAllXuiid(trks[i + 1].Raw, 1), trackURI(base, trks[i + 1], i)>>
            \o renderFrom(base, trks, i + 1)

render(base, trks) == renderFrom(base, trks, 0)

\* the nil *playlistLoader of a Provider that has parsed no playlist
NilLoader == [nil |-> TRUE, tracks |-> <<>>, m3u |-> <<>>]

\* the loader state after the parser has fed a whole playlist to OnTrack
RECURSIVE feed(_, _, _, _)
feed(fs, pl, entries, i) ==
    IF i > Len(entries) THEN [pl |-> pl, panicked |-> FALSE]
    ELSE LET r == onTrack(fs, pl, entries[i])
         IN  IF r.panicked THEN [pl |-> r.pl, panicked |-> TRUE]
             ELSE feed(fs, r.pl, entries, i + 1)

NewLoader == [tracks |-> <<>>, priorities |-> EmptyMap]

\* history bookkeeping: fold the priorities recorded by the calls into low
minInto(low, prio) ==
    [n \in (DOMAIN low) \cup (DOMAIN prio) |->
        IF n \notin DOMAIN prio THEN low[n]
        ELSE IF n \notin DOMAIN low THEN prio[n]
        ELSE IF prio[n] < low[n] THEN prio[n] ELSE low[n]]

RECURSIVE noteLowest(_, _, _)
noteLowest(low, cs, i) ==
    IF i > Len(cs) THEN low
    ELSE noteLowest(minInto(low, cs[i].after.priorities), cs, i + 1)

\* the configured base addresses: none, or the proxy's own address
BaseAddresses == {"", "tv:6078"}

\* loadM3u(reader, pl) on a fresh loader: OnPlaylistStart, OnTrack for each
\* entry, OnPlaylistEnd; out is "ok", "error" (the parser's error, parseOK
\* false) or "panic" (the invalid-filter panic of OnTrack)
loadM3u(base, fs, entries, parseOK) ==
    LET fed == feed(fs, NewLoader, entries, 1)
        sorted == SliceStable(fed.pl.priorities, fed.pl.tracks)
    IN  IF fed.panicked THEN [out |-> "panic", pl |-> NilLoader]
        ELSE IF ~parseOK THEN [out |-> "error", pl |-> NilLoader]
        ELSE [out |-> "ok",
              pl |-> [nil |-> FALSE, tracks |-> sorted,
                      m3u |-> <<sHeader>> \o render(base, sorted)]]

\* var trackNotFound = Track{}
trackNotFound == [Name |-> sEmpty, Tags |-> EmptyMap, Raw |-> sEmpty, URI |-> sEmpty]

\* GetTrack(idx) on the loader pl
getTrack(pl, idx) ==
    IF idx >= Len(pl.tracks) THEN trackNotFound ELSE pl.tracks[idx + 1]

\* what GetM3u, GetTrack (at every index), GetEpgXML and GetLastRefresh
\* return for the Provider fields given
View(pl, data, last) ==
    [GetM3u |-> pl.m3u,
     GetTrack |-> [idx \in 0..MaxPlaylist |-> getTrack(pl, idx)],
     GetEpgXML |-> data,
     GetLastRefresh |-> last]

(* ------------------------------ EPG input ------------------------------ *)
\* an element of the EPG stream: its name, its attributes, its text, and
\* whether DecodeElement can decode it
MkElement(name, attrs, text, ok) ==
    [name |-> name, attrs |-> attrs, text |-> text, ok |-> ok]

Attr(e, key) == IF key \in DOMAIN e.attrs THEN e.attrs[key] ELSE sEmpty

\* the elements an EPG stream is drawn from
EpgPool ==
    { MkElement("tv", [a \in {"date", "lang"} |-> "x"], "", TRUE),
      MkElement("channel", [a \in {"id"} |-> sId1], "ESPN", TRUE),
      MkElement("channel", [a \in {"id"} |-> sId2], "Other", FALSE),
      MkElement("programme", [a \in {"channel"} |-> sId1], "news", TRUE),
      MkElement("programme", [a \in {"channel"} |-> sId2], "news", TRUE),
      MkElement("programme", [a \in {} |-> sEmpty], "news", TRUE),
      MkElement("programme", [a \in {"channel"} |-> sId1], "news", FALSE),
      MkElement("icon", [a \in {"src"} |-> sEmpty], "", TRUE) }

EpgStreams == UNION { [1..n -> EpgPool] : n \in 0..MaxEpg }

(* ------------------------- Provider.loadXMLTv -------------------------- *)
\* new(xmltv.TV)
NewTV == [nil |-> FALSE, header |-> EmptyMap, Channels |-> <<>>, Programmes |-> <<>>]

\* the nil *xmltv.TV
NilTV == [nil |-> TRUE, header |-> EmptyMap, Channels |-> <<>>, Programmes |-> <<>>]

\* the attributes of the root element that loadXMLTv copies
HeaderAttrs ==
    { "date", "source-info-url", "source-info-name", "source-data-url",
      "generator-info-name", "generator-info-url" }

\* xmltv.Channel and xmltv.Programme as DecodeElement fills them
decodeChannel(e) == [ID |-> Attr(e, "id"), DisplayName |-> e.text]

decodeProgramme(e) == [Channel |-> Attr(e, "channel"), Title |-> e.text]

\* mutant of channelIDs: the empty tvg-id is not skipped
channelIDsAll(trks) == { Tag(trks[i], "tvg-id") : i \in 1..Len(trks) }

\* the keys of the channels map built from p.playlist.tracks
channelIDs(trks) ==
    { Tag(trks[i], "tvg-id") : i \in { j \in 1..Len(trks) : Len(Tag(trks[j], "tvg-id")) # 0 } }

\* one turn of the token loop on the start element e; x is the state of
\* the call: [tv, totalChannelCount, totalProgrammeCount, ret]
onElement(x, chans, e) ==
    CASE e.name = "tv" ->
           [x EXCEPT !.tv.header =
               [a \in (DOMAIN x.tv.header) \cup ((DOMAIN e.attrs) \cap HeaderAttrs) |->
                   IF a \in DOMAIN e.attrs THEN e.attrs[a] ELSE x.tv.header[a]]]
      [] e.name = "programme" ->
           IF ~e.ok THEN [x EXCEPT !.ret = "err"]
           ELSE [x EXCEPT
                   !.tv.Programmes =
                       IF decodeProgramme(e).Channel \in chans
                       THEN Append(x.tv.Programmes, decodeProgramme(e))
                       ELSE x.tv.Programmes,
                   !.totalProgrammeCount = x.totalProgrammeCount + 1]
      [] e.name = "channel" ->
           IF ~e.ok THEN [x EXCEPT !.ret = "err"]
           ELSE [x EXCEPT
                   !.tv.Channels =
                       IF decodeChannel(e).ID \in chans
                       THEN Append(x.tv.Channels, decodeChannel(e))
                       ELSE x.tv.Channels,
                   !.totalChannelCount = x.totalChannelCount + 1]
      [] OTHER -> x

\* loadXMLTv(reader): the token loop to the end of the stream or to the
\* first element that does not decode
RECURSIVE tokenLoop(_, _, _, _)
tokenLoop(x, chans, elements, i) ==
    IF x.ret = "err" THEN x
    ELSE IF i > Len(elements) THEN [x EXCEPT !.ret = "ok"]
    ELSE tokenLoop(onElement(x, chans, elements[i]), chans, elements, i + 1)

\* mutant of loadXMLTv: on a decode error the document built so far is
\* returned with the error
loadXMLTvPartial(trks, elements) ==
    LET x == tokenLoop([tv |-> NewTV, totalChannelCount |-> 0,
                        totalProgrammeCount |-> 0, ret |-> "loop"],
                       channelIDs(trks), elements, 1)
    IN  IF x.ret = "err" THEN [tv |-> x.tv, err |-> TRUE]
        ELSE [tv |-> x.tv, err |-> FALSE]

\* whether DecodeElement fails on the element
DecodeFails(e) == e.name \in {"channel", "programme"} /\ ~e.ok

\* the elements of the stream that the token loop reads: all of them, or
\* those up to the first that does not decode
RECURSIVE delivered(_, _)
delivered(elements, i) ==
    IF i > Len(elements) THEN elements
    ELSE IF DecodeFails(elements[i]) THEN SubSeq(elements, 1, i)
    ELSE delivered(elements, i + 1)

loadXMLTv(trks, elements) ==
    LET x == tokenLoop([tv |-> NewTV, totalChannelCount |-> 0,
                        totalProgrammeCount |-> 0, ret |-> "loop"],
                       channelIDs(trks), elements, 1)
    IN  IF x.ret = "err" THEN [tv |-> NilTV, err |-> TRUE]
        ELSE [tv |-> x.tv, err |-> FALSE]

\* a loader fresh from newPlaylistLoader
InitLoader ==
    /\ tracks = <<>>
    /\ priorities = EmptyMap
    /\ m3u = <<>>
    /\ phase = "new"
    /\ input = <<>>
    /\ calls = <<>>
    /\ pre = NewLoader
    /\ lowest = EmptyMap

\* a Provider fresh from NewProvider
InitProvider ==
    /\ playlist = NilLoader
    /\ epg = NilTV
    /\ epgData = <<>>
    /\ lastRefresh = 0
    /\ pc = "idle"
    /\ result = "none"
    /\ refreshes = 0
    /\ snap = [ok |-> FALSE, view |-> View(NilLoader, <<>>, 0)]

\* no line being stripped
InitRaw ==
    /\ trackRaw = <<>>
    /\ fixedRaw = <<>>
    /\ fixedAgain = <<>>
    /\ passes = 0

\* no loadXMLTv under way
InitXMLTv ==
    /\ stream = <<>>
    /\ seen = <<>>
    /\ tvSetup = NewTV
    /\ totalChannelCount = 0
    /\ totalProgrammeCount = 0
    /\ xret = "ok"

\* the reconciler on its own, with URL rewriting configured
Init ==
    /\ baseAddress = "tv:6078"
    /\ filters \in FilterLists
    /\ InitLoader
    /\ InitProvider
    /\ InitXMLTv
    /\ InitRaw

\* OnPlaylistStart, called once before the first entry
OnPlaylistStart ==
    /\ phase = "new"
    /\ m3u' = <<sHeader>>
    /\ phase' = "run"
    /\ UNCHANGED <<baseAddress, filters, tracks, priorities, input, calls, pre, lowest>>
    /\ UNCHANGED <<pvars, xvars, svars>>

\* OnTrack(track), called by the parser for each entry of the playlist
OnTrack(track) ==
    /\ phase = "run"
    /\ Len(input) < MaxTracks
    /\ LET r == onTrack(filters, [tracks |-> tracks, priorities |-> priorities], track)
       IN  /\ tracks' = r.pl.tracks
           /\ priorities' = r.pl.priorities
           /\ calls' = r.calls
           /\ pre' = [tracks |-> tracks, priorities |-> priorities]
           /\ phase' = IF r.panicked THEN "panic" ELSE "run"
           /\ lowest' = noteLowest(lowest, r.calls, 1)
    /\ input' = Append(input, track)
    /\ UNCHANGED <<baseAddress, filters, m3u>>
    /\ UNCHANGED <<pvars, xvars, svars>>

\* OnPlaylistEnd, called once after the last entry
OnPlaylistEnd ==
    /\ phase = "run"
    /\ tracks' = SliceStable(priorities, tracks)
    /\ m3u' = m3u \o render(baseAddress, tracks')
    /\ phase' = "done"
    /\ UNCHANGED <<baseAddress, filters, priorities, input, calls, pre, lowest>>
    /\ UNCHANGED <<pvars, xvars, svars>>

Next ==
    \/ OnPlaylistStart
    \/ \E track \in TrackPool : OnTrack(track)
    \/ OnPlaylistEnd

Spec == Init /\ [][Next]_vars

(* --------------------- loadXMLTv, one token at a time ------------------- *)
\* the playlists a refresh cycle reads, and the filter lists it is
\* configured with
RefreshTracks ==
    { MkTrack(sESPN, sId1, sEmpty),
      MkTrack(sOther, sId2, sEmpty),
      MkTrack(sESPN, sEmpty, sEmpty) }

RefreshPlaylists == UNION { [1..n -> RefreshTracks] : n \in 0..MaxPlaylist }

RefreshFilterLists == { fs \in FilterLists : Len(fs) <= 1 }

\* the loaders Refresh can have stored in p.playlist when it calls loadXMLTv
ParsedLoaders(base) ==
    { loadM3u(base, fs, entries, TRUE).pl :
        fs \in RefreshFilterLists, entries \in RefreshPlaylists } \ {NilLoader}

InitEpg ==
    /\ baseAddress = ""
    /\ filters = <<>>
    /\ InitLoader
    /\ playlist \in ParsedLoaders(baseAddress)
    /\ epg = NilTV
    /\ epgData = <<>>
    /\ lastRefresh = 0
    /\ pc = "xmltv"
    /\ result = "none"
    /\ refreshes = 1
    /\ snap = [ok |-> FALSE, view |-> View(NilLoader, <<>>, 0)]
    /\ stream \in EpgStreams
    /\ seen = <<>>
    /\ tvSetup = NewTV
    /\ totalChannelCount = 0
    /\ totalProgrammeCount = 0
    /\ xret = "loop"
    /\ InitRaw

\* one turn of the loop on the next start element
Token(e) ==
    /\ xret = "loop"
    /\ stream # <<>>
    /\ e = Head(stream)
    /\ LET x == onElement([tv |-> tvSetup, totalChannelCount |-> totalChannelCount,
                           totalProgrammeCount |-> totalProgrammeCount, ret |-> "loop"],
                          channelIDs(playlist.tracks), e)
       IN  /\ tvSetup' = IF x.ret = "err" THEN NilTV ELSE x.tv
           /\ totalChannelCount' = x.totalChannelCount
           /\ totalProgrammeCount' = x.totalProgrammeCount
           /\ xret' = x.ret
    /\ stream' = Tail(stream)
    /\ seen' = Append(seen, e)
    /\ UNCHANGED <<plvars, pvars, svars>>

TokenTv == \E e \in EpgPool : e.name = "tv" /\ Token(e)

TokenProgramme == \E e \in EpgPool : e.name = "programme" /\ Token(e)

TokenChannel == \E e \in EpgPool : e.name = "channel" /\ Token(e)

TokenOther == \E e \in EpgPool : e.name \notin {"tv", "programme", "channel"} /\ Token(e)

\* decoder.Token() returns an error (the end of the stream or any other):
\* the loop ends and tvSetup is returned
TokenEnd ==
    /\ xret = "loop"
    /\ stream = <<>>
    /\ xret' = "ok"
    /\ UNCHANGED <<plvars, pvars, svars, stream, seen, tvSetup, totalChannelCount,
                   totalProgrammeCount>>

NextEpg ==
    \/ TokenTv
    \/ TokenProgramme
    \/ TokenChannel
    \/ TokenOther
    \/ TokenEnd

SpecEpg == InitEpg /\ [][NextEpg]_vars

(* --------------------------- Provider.Refresh --------------------------- *)
\* what a location resolves to: a URL or a local path, and what goes wrong
\* when it is read
Resources ==
    { [isURL |-> TRUE, fault |-> f] : f \in {"none", "request", "transport", "status"} }
    \cup { [isURL |-> FALSE, fault |-> f] : f \in {"none", "open"} }

\* loadReader(uri, userAgent): "ok" with a reader, "error", or "panic"
loadReader(res) ==
    IF res.isURL
    THEN IF res.fault = "request" THEN "panic"
         ELSE IF res.fault = "transport" THEN "panic"
         ELSE IF res.fault = "status" THEN "error"
         ELSE "ok"
    ELSE IF res.fault = "open" THEN "error" ELSE "ok"

\* the EPG streams a refresh cycle reads
RefreshStreams ==
    { s \in EpgStreams :
        /\ Len(s) <= 2
        /\ \A i \in 1..Len(s) :
              \/ s[i].name \in {"tv", "channel"}
              \/ s[i].name = "programme" /\ Attr(s[i], "channel") = sId1 }

\* xml.Marshal(p.epg): the root element with the header attributes, the
\* channel elements, the programme elements, the closing tag
marshal(tv) ==
    <<[el |-> "tv", attrs |-> tv.header]>>
    \o [i \in 1..Len(tv.Channels) |->
           [el |-> "channel", attrs |-> [a \in {"id"} |-> tv.Channels[i].ID]]]
    \o [i \in 1..Len(tv.Programmes) |->
           [el |-> "programme", attrs |-> [a \in {"channel"} |-> tv.Programmes[i].Channel]]]
    \o <<[el |-> "/tv", attrs |-> EmptyMap]>>

xmlHeader ==
    << [el |-> "?xml", attrs |-> [a \in {"version", "encoding"} |-> sEmpty]],
       [el |-> "!DOCTYPE", attrs |-> [a \in {"tv"} |-> sEmpty]] >>

InitRefresh ==
    /\ baseAddress \in BaseAddresses
    /\ filters \in RefreshFilterLists
    /\ InitLoader
    /\ InitProvider
    /\ InitXMLTv
    /\ InitRaw

\* Refresh returns err
ReturnError ==
    /\ pc' = "idle"
    /\ result' = "error"

\* a panic ends the Refresh call
Panics ==
    /\ pc' = "crashed"
    /\ result' = "panic"

\* Refresh, lines 290-300: the playlist source is opened
RefreshLoadPlaylist(res) ==
    /\ pc = "idle"
    /\ refreshes < MaxRefresh
    /\ refreshes' = refreshes + 1
    /\ snap' = [ok |-> snap.ok \/ result = "nil",
                view |-> View(playlist, epgData, lastRefresh)]
    /\ CASE loadReader(res) = "ok" -> pc' = "m3u" /\ UNCHANGED result
         [] loadReader(res) = "error" -> ReturnError
         [] OTHER -> Panics
    /\ seen' = <<>>
    /\ UNCHANGED <<stream, tvSetup, totalChannelCount, totalProgrammeCount, xret>>
    /\ UNCHANGED <<plvars, svars, playlist, epg, epgData, lastRefresh>>

\* Refresh, lines 302-309: a fresh loader parses the playlist and is stored
RefreshLoadM3u(entries, parseOK) ==
    /\ pc = "m3u"
    /\ LET r == loadM3u(baseAddress, filters, entries, parseOK)
       IN  CASE r.out = "ok" ->
                  /\ playlist' = r.pl
                  /\ pc' = "epgReader"
                  /\ UNCHANGED result
             [] r.out = "error" -> ReturnError /\ UNCHANGED playlist
             [] OTHER -> Panics /\ UNCHANGED playlist
    /\ UNCHANGED <<plvars, xvars, svars, epg, epgData, lastRefresh, refreshes, snap>>

\* Refresh, lines 311-319: the EPG source is opened
RefreshLoadEpg(res) ==
    /\ pc = "epgReader"
    /\ CASE loadReader(res) = "ok" -> pc' = "xmltv" /\ UNCHANGED result
         [] loadReader(res) = "error" -> ReturnError
         [] OTHER -> Panics
    /\ UNCHANGED <<plvars, xvars, svars, playlist, epg, epgData, lastRefresh, refreshes, snap>>

\* Refresh, lines 321-324: p.epg, err = p.loadXMLTv(epgReader)
RefreshLoadXMLTv(elements) ==
    /\ pc = "xmltv"
    /\ LET r == loadXMLTv(playlist.tracks, elements)
       IN  /\ epg' = r.tv
           /\ IF r.err THEN ReturnError ELSE pc' = "marshal" /\ UNCHANGED result
    /\ seen' = delivered(elements, 1)
    /\ UNCHANGED <<stream, tvSetup, totalChannelCount, totalProgrammeCount, xret>>
    /\ UNCHANGED <<plvars, svars, playlist, epgData, lastRefresh, refreshes, snap>>

\* Refresh, lines 326-332: the document is serialized and stored
RefreshMarshal(marshalOK) ==
    /\ pc = "marshal"
    /\ IF marshalOK
       THEN /\ epgData' = xmlHeader \o marshal(epg)
            /\ pc' = "stamp"
            /\ UNCHANGED result
       ELSE ReturnError /\ UNCHANGED epgData
    /\ UNCHANGED <<plvars, xvars, svars, playlist, epg, lastRefresh, refreshes, snap>>

\* Refresh, lines 334-336: the time is stored and nil returned
RefreshStamp ==
    /\ pc = "stamp"
    /\ lastRefresh' = refreshes
    /\ pc' = "idle"
    /\ result' = "nil"
    /\ UNCHANGED <<plvars, xvars, svars, playlist, epg, epgData, refreshes, snap>>

NextRefresh ==
    \/ \E res \in Resources : RefreshLoadPlaylist(res)
    \/ \E entries \in RefreshPlaylists, parseOK \in BOOLEAN :
           RefreshLoadM3u(entries, parseOK)
    \/ \E res \in Resources : RefreshLoadEpg(res)
    \/ \E elements \in RefreshStreams : RefreshLoadXMLTv(elements)
    \/ \E marshalOK \in BOOLEAN : RefreshMarshal(marshalOK)
    \/ RefreshStamp

SpecRefresh == InitRefresh /\ [][NextRefresh]_vars

(* ------------------------ stripping on its own ------------------------- *)
\* the pieces raw lines are put together from
RawFragments ==
    { sXuiOpen,
      <<"}", "\"">>,
      <<" ">>,
      <<"7">>,
      <<"#">> }

RECURSIVE RawLinesOf(_)
RawLinesOf(n) ==
    IF n = 0 THEN {<<>>}
    ELSE LET shorter == RawLinesOf(n - 1)
         IN  shorter \cup { l \o f : l \in shorter, f \in RawFragments }

RawLines == RawLinesOf(MaxFrags)

InitStrip ==
    /\ baseAddress = ""
    /\ filters = <<>>
    /\ InitLoader
    /\ InitProvider
    /\ InitXMLTv
    /\ trackRaw \in RawLines
    /\ fixedRaw = <<>>
    /\ fixedAgain = <<>>
    /\ passes = 0

\* fixedRaw := reXuiid.ReplaceAllString(track.Raw, "")
Strip ==
    /\ passes = 0
    /\ fixedRaw' = replaceAllXuiid(trackRaw, 1)
    /\ passes' = 1
    /\ UNCHANGED <<plvars, pvars, xvars, trackRaw, fixedAgain>>

\* the same replacement applied to its own result
StripAgain ==
    /\ passes = 1
    /\ fixedAgain' = replaceAllXuiid(fixedRaw, 1)
    /\ passes' = 2
    /\ UNCHANGED <<plvars, pvars, xvars, trackRaw, fixedRaw>>

NextStrip ==
    \/ Strip
    \/ StripAgain

SpecStrip == InitStrip /\ [][NextStrip]_vars

(* ====================== properties of the reconciler =================== *)
idOf(track) == Tag(track, "tvg-id")

Last(s) == s[Len(s)]

\* the step is a call OnTrack(Fed)
OnTrackStep == Len(input') = Len(input) + 1

Fed == input'[Len(input')]

\* the priorities of the filters a track matches (0 when none is configured)
MatchPrios(fs, track) ==
    IF Len(fs) = 0 THEN {0}
    ELSE { i \in 0..(Len(fs) - 1) :
             /\ fs[i + 1].Type \in ValidTypes
             /\ Len(Tag(track, filterField(fs[i + 1].Type))) > 0
             /\ Match(fs[i + 1], Tag(track, filterField(fs[i + 1].Type))) }

Recorded(prio, track) == track.Name \in DOMAIN prio

\* the loader state before the i-th processTrack call of the last OnTrack
Before(i) == IF i = 1 THEN pre ELSE calls[i - 1].after

\* the retained list before the final sort, recomputed from the input
Unsorted == feed(filters, NewLoader, input, 1).pl.tracks

NoDupId(trks) ==
    \A i, j \in 1..Len(trks) :
        (i # j /\ idOf(trks[i]) # sEmpty) => idOf(trks[i]) # idOf(trks[j])

\* C1: in every state of the reconciler, after each processTrack call and
\* after OnPlaylistEnd, no two retained tracks have the same non-empty tvg-id
C1_NoDuplicateId ==
    /\ NoDupId(tracks)
    /\ \A k \in 1..Len(calls) : NoDupId(calls[k].after.tracks)

\* C1 witness: the run has ended, its last track replaced a retained track
\* in place, and two tracks with tvg-ids are retained
C1_Witness ==
    /\ phase = "done"
    /\ Cardinality({ k \in 1..Len(tracks) : idOf(tracks[k]) # sEmpty }) >= 2
    /\ \E k \in 1..Len(calls) :
           /\ calls[k].after.tracks # Before(k).tracks
           /\ Len(calls[k].after.tracks) = Len(Before(k).tracks)

\* C2 as claimed: no two retained tracks share a Name, unless that name has
\* no recorded priority
C2_NoDuplicateName ==
    \A i, j \in 1..Len(tracks) :
        (i < j /\ tracks[i].Name = tracks[j].Name)
            => tracks[i].Name \notin DOMAIN priorities

\* the retained track at position k against an incoming track B of C3: same
\* Name, same non-empty tvg-id, "HD" in the name, the name has a priority
C3_Case(k, B) ==
    /\ tracks[k].Name = B.Name
    /\ idOf(B) # sEmpty
    /\ idOf(tracks[k]) = idOf(B)
    /\ Contains(B.Name, sHD)
    /\ B.Name \in DOMAIN priorities

\* C3 as claimed: B takes A's position when B matches a filter of equal or
\* better priority than the one recorded for the name
C3_Original ==
    [][(OnTrackStep /\ phase' = "run") =>
         \A k \in 1..Len(tracks) :
            (/\ C3_Case(k, Fed)
             /\ \E p \in MatchPrios(filters, Fed) : p <= priorities[Fed.Name])
                => tracks'[k] = Fed]_vars

\* C3 amended: B takes A's position (and A is gone) when B matches a filter
\* of strictly better priority than the one recorded for the name; when all
\* the filters B matches are of equal or worse priority, B is discarded and
\* the loader state is unchanged
C3_Amended ==
    [][(OnTrackStep /\ phase' = "run") =>
         \A k \in 1..Len(tracks) :
            C3_Case(k, Fed) =>
              /\ (\E p \in MatchPrios(filters, Fed) : p < priorities[Fed.Name])
                   => /\ tracks'[k] = Fed
                      /\ Len(tracks') = Len(tracks)
                      /\ tracks[k] # Fed
                           => \A j \in 1..Len(tracks') : tracks'[j] # tracks[k]
              /\ (\A p \in MatchPrios(filters, Fed) : p >= priorities[Fed.Name])
                   => UNCHANGED <<tracks, priorities>>]_vars

\* C3 witness: the last track replaced a different retained track of the
\* same name and tvg-id at a strictly better priority
C3_Witness ==
    /\ phase = "run"
    /\ Len(calls) >= 1
    /\ LET B == Last(input)
       IN  \E k \in 1..Len(pre.tracks) :
              /\ pre.tracks[k].Name = B.Name
              /\ idOf(B) # sEmpty
              /\ idOf(pre.tracks[k]) = idOf(B)
              /\ Contains(B.Name, sHD)
              /\ B.Name \in DOMAIN pre.priorities
              /\ calls[1].priority < pre.priorities[B.Name]
              /\ pre.tracks[k] # B
              /\ tracks[k] = B

\* C4: a track without "HD" in its name that shares its non-empty tvg-id
\* with a retained track changes neither the retained list nor the priority
\* map, at any of the filters it matches (every processTrack call leaves
\* the loader as it was before the OnTrack)
C4_NonHDFrame ==
    [][OnTrackStep =>
         ((/\ idOf(Fed) # sEmpty
           /\ ~Contains(Fed.Name, sHD)
           /\ \E k \in 1..Len(tracks) : idOf(tracks[k]) = idOf(Fed))
             => /\ UNCHANGED <<tracks, priorities>>
                /\ \A i \in 1..Len(calls') : calls'[i].after = pre')]_vars

\* C4 witness: a track without "HD", whose name had no priority, met a
\* different retained track with its tvg-id at two matching filters
C4_Witness ==
    /\ phase = "run"
    /\ Len(calls) >= 2
    /\ LET T == Last(input)
       IN  /\ idOf(T) # sEmpty
           /\ ~Contains(T.Name, sHD)
           /\ T.Name \notin DOMAIN pre.priorities
           /\ \E k \in 1..Len(pre.tracks) :
                  /\ idOf(pre.tracks[k]) = idOf(T)
                  /\ pre.tracks[k] # T

\* a may stand before b in a list sorted by priority
InOrder(prio, a, b) ==
    \/ ~Recorded(prio, b)
    \/ Recorded(prio, a) /\ prio[a.Name] <= prio[b.Name]

\* a and b tie: the same priority, or none for either
Tie(prio, a, b) ==
    \/ ~Recorded(prio, a) /\ ~Recorded(prio, b)
    \/ Recorded(prio, a) /\ Recorded(prio, b) /\ prio[a.Name] = prio[b.Name]

\* the orderings of the indices in S, as sequences
RECURSIVE Perms(_)
Perms(S) ==
    IF S = {} THEN {<<>>}
    ELSE UNION { { <<x>> \o p : p \in Perms(S \ {x}) } : x \in S }

IsStableSortOf(prio, before, after) ==
    /\ Len(after) = Len(before)
    /\ \E f \in Perms(1..Len(before)) :
          /\ \A i \in 1..Len(after) : after[i] = before[f[i]]
          /\ \A i, j \in 1..Len(after) :
                i < j => /\ InOrder(prio, after[i], after[j])
                         /\ Tie(prio, after[i], after[j]) => f[i] < f[j]

\* C5: OnPlaylistEnd permutes the retained list so that recorded priorities
\* do not decrease, tracks without a recorded priority come last, and ties
\* keep their order
C5_StableSort ==
    [][(phase = "run" /\ phase' = "done")
          => IsStableSortOf(priorities, tracks, tracks')]_vars

\* C5 witness: the sort moved a track, and a retained track has no priority
C5_Witness ==
    /\ phase = "done"
    /\ tracks # Unsorted
    /\ \E k \in 1..Len(tracks) : ~Recorded(priorities, tracks[k])

C6Filters == <<[Type |-> "name", lit |-> sESPN]>>

C6Input ==
    << MkTrack(sESPN, sId1, sEmpty),
       MkTrack(sESPNHD, sId1, sEmpty),
       MkTrack(sOther, sId2, sEmpty) >>

C6Scenario == filters = C6Filters /\ input = C6Input /\ phase = "done"

\* C6 as claimed: the scenario ends with [ESPN HD, Other], ESPN HD at
\* priority 0 and Other without one
C6_Original ==
    C6Scenario =>
        /\ tracks = << MkTrack(sESPNHD, sId1, sEmpty), MkTrack(sOther, sId2, sEmpty) >>
        /\ DOMAIN priorities = {sESPNHD}
        /\ priorities[sESPNHD] = 0

\* C6 amended: the scenario ends with [ESPN HD] alone at priority 0; when
\* filters are configured, every retained track matches one of them, so a
\* track that matches no filter is not retained
C6_Amended ==
    /\ C6Scenario =>
          /\ tracks = << MkTrack(sESPNHD, sId1, sEmpty) >>
          /\ DOMAIN priorities = {sESPNHD}
          /\ priorities[sESPNHD] = 0
    /\ Len(filters) > 0 =>
          \A k \in 1..Len(tracks) : MatchPrios(filters, tracks[k]) # {}

\* C6 witness: the scenario has run to its end
C6_Witness == C6Scenario

\* C7 as claimed: without filters every (Name, tvg-id) pair of the input is
\* retained at priority 0, unless a retained track has its non-empty tvg-id
C7_Original ==
    (Len(filters) = 0 /\ phase = "done") =>
        /\ \A n \in DOMAIN priorities : priorities[n] = 0
        /\ \A i \in 1..Len(input) :
              \/ \E k \in 1..Len(tracks) :
                    /\ tracks[k].Name = input[i].Name
                    /\ idOf(tracks[k]) = idOf(input[i])
              \/ /\ idOf(input[i]) # sEmpty
                 /\ \E k \in 1..Len(tracks) : idOf(tracks[k]) = idOf(input[i])

\* C7 amended: without filters every recorded priority is 0 and the recorded
\* names are the retained names; every Name of the input is retained unless
\* a retained track has the non-empty tvg-id of an input track of that name;
\* retained names are pairwise distinct (of two tracks with one Name and
\* different tvg-ids only one is retained); the final sort moves nothing
C7_Amended ==
    Len(filters) = 0 =>
        /\ \A n \in DOMAIN priorities : priorities[n] = 0
        /\ DOMAIN priorities = { tracks[k].Name : k \in 1..Len(tracks) }
        /\ \A i, j \in 1..Len(tracks) : tracks[i].Name = tracks[j].Name => i = j
        /\ \A i \in 1..Len(input) :
              \/ \E k \in 1..Len(tracks) : tracks[k].Name = input[i].Name
              \/ \E j \in 1..Len(input), k \in 1..Len(tracks) :
                    /\ input[j].Name = input[i].Name
                    /\ idOf(input[j]) # sEmpty
                    /\ idOf(tracks[k]) = idOf(input[j])
        /\ phase = "done" => tracks = Unsorted

\* C7 witness: a run without filters has ended on an input with two tracks
\* of one Name and different tvg-ids, and two tracks are retained
C7_Witness ==
    /\ Len(filters) = 0
    /\ phase = "done"
    /\ Len(tracks) >= 2
    /\ \E i, j \in 1..Len(input) :
          /\ i < j
          /\ input[i].Name = input[j].Name
          /\ idOf(input[i]) # sEmpty
          /\ idOf(input[j]) # sEmpty
          /\ idOf(input[i]) # idOf(input[j])

\* C8 as claimed: the priority recorded for a name is never above a priority
\* recorded for it earlier in the run
C8_Original ==
    \A n \in DOMAIN priorities : priorities[n] <= lowest[n]

\* C8 amended: while a name stays recorded its priority never increases, at
\* any processTrack call (a name whose entry was deleted by an in-place
\* replacement may come back with a worse priority)
C8_Amended ==
    [][/\ \A n \in (DOMAIN priorities) \cap (DOMAIN priorities') :
             priorities'[n] <= priorities[n]
       /\ \A i \in 1..Len(calls') :
             \A n \in (DOMAIN Before(i)'.priorities)
                        \cap (DOMAIN calls'[i].after.priorities) :
                calls'[i].after.priorities[n] <= Before(i)'.priorities[n]]_vars

\* C8 witness: the last track lowered the priority recorded for a name
C8_Witness ==
    \E i \in 1..Len(calls) :
        \E n \in (DOMAIN Before(i).priorities)
                   \cap (DOMAIN calls[i].after.priorities) :
            calls[i].after.priorities[n] < Before(i).priorities[n]

(* ======================= properties of loadXMLTv ======================= *)
\* the tvg-ids of the retained tracks of the stored loader
RetainedIDs ==
    { id \in { idOf(playlist.tracks[k]) : k \in 1..Len(playlist.tracks) } : id # sEmpty }

IsKeptProgramme(e) == e.name = "programme" /\ Attr(e, "channel") \in RetainedIDs

IsKeptChannel(e) == e.name = "channel" /\ Attr(e, "id") \in RetainedIDs

\* C9: while no element has failed to decode, the document holds exactly
\* the programmes and channels read so far whose channel is the non-empty
\* tvg-id of a retained track, in input order; the kept counts never exceed
\* the totals; and the returned document covers the whole stream
C9_EpgFilter ==
    /\ Len(tvSetup.Channels) <= totalChannelCount
    /\ Len(tvSetup.Programmes) <= totalProgrammeCount
    /\ xret \in {"loop", "ok"} =>
          /\ tvSetup.Programmes =
                [i \in 1..Len(SelectSeq(seen, IsKeptProgramme)) |->
                    decodeProgramme(SelectSeq(seen, IsKeptProgramme)[i])]
          /\ tvSetup.Channels =
                [i \in 1..Len(SelectSeq(seen, IsKeptChannel)) |->
                    decodeChannel(SelectSeq(seen, IsKeptChannel)[i])]
    /\ xret = "ok" => stream = <<>>

\* C9 witness: a returned document that kept a channel and a programme and
\* dropped another programme
C9_Witness ==
    /\ xret = "ok"
    /\ Len(tvSetup.Channels) >= 1
    /\ Len(tvSetup.Programmes) >= 1
    /\ totalProgrammeCount > Len(tvSetup.Programmes)

(* ======================== properties of Refresh ======================== *)
\* C10 as claimed: when a Refresh returns an error after an earlier Refresh
\* succeeded, GetM3u, GetTrack, GetEpgXML and GetLastRefresh return what
\* they returned when the failed Refresh started
C10_FailedRefreshKeepsSnapshot ==
    (pc = "idle" /\ result = "error" /\ snap.ok)
        => View(playlist, epgData, lastRefresh) = snap.view

\* C11 as claimed: while a Refresh is under way after an earlier one
\* succeeded, what the accessors return is all of the previous generation
\* (what they returned when this Refresh started) or all of the new one
\* (this Refresh has stored its playlist, its EPG bytes and its timestamp)
C11_SameGeneration ==
    (snap.ok /\ pc \notin {"idle", "crashed"}) =>
        \/ View(playlist, epgData, lastRefresh) = snap.view
        \/ /\ playlist # NilLoader
           /\ epgData = xmlHeader \o marshal(epg)
           /\ lastRefresh = refreshes

(* ================== further properties of the reconciler ================ *)
HasInvalidFilter(fs) == \E i \in 1..Len(fs) : fs[i].Type \notin ValidTypes

\* C12 as claimed: with a filter of an invalid type in the list, no run
\* reaches the end of the playlist: every run ends in the panic and renders
\* no playlist, whatever the input
C12_InvalidFilterFatal ==
    HasInvalidFilter(filters) => phase # "done"

(* ======================= properties of the stripping ==================== *)
\* C13 as claimed: stripping a raw line twice gives what stripping it once
\* gives
C13_StripIdempotent ==
    passes = 2 => fixedAgain = fixedRaw

(* ======================= properties of the rendering ==================== *)
\* the loader as the Provider would hold it after this run
ThisLoader == [nil |-> FALSE, tracks |-> tracks, m3u |-> m3u]

\* C14: with URL rewriting configured, the rendered playlist of a finished
\* run is the header line and then, for each zero-based position i of the
\* sorted retained list, the stripped metadata line of the track GetTrack(i)
\* returns followed by the address http://<base>/channel/<i>, and nothing
\* else
C14_RenderedIndices ==
    (phase = "done" /\ Len(baseAddress) > 0) =>
        /\ Len(m3u) = 1 + 2 * Len(tracks)
        /\ m3u[1] = sHeader
        /\ tracks = SliceStable(priorities, Unsorted)
        /\ \A i \in 0..(Len(tracks) - 1) :
              /\ getTrack(ThisLoader, i) # trackNotFound
              /\ m3u[2 * i + 2] = replaceAllXuiid(getTrack(ThisLoader, i).Raw, 1)
              /\ m3u[2 * i + 2] = <<"#">> \o getTrack(ThisLoader, i).Name
              /\ m3u[2 * i + 3] = <<"http://", baseAddress, "/channel/", i>>
        /\ getTrack(ThisLoader, Len(tracks)) = trackNotFound

\* C14 witness: a finished run with rewriting whose sort moved a track and
\* whose rendered list holds a track whose raw line carried an xui-id
C14_Witness ==
    /\ phase = "done"
    /\ Len(baseAddress) > 0
    /\ Len(tracks) >= 2
    /\ tracks # Unsorted
    /\ \E k \in 1..Len(tracks) : Contains(tracks[k].Raw, sXuiOpen)

(* =================== further properties of the EPG filter =============== *)
\* C15: when an element read by loadXMLTv fails to decode, loadXMLTv
\* returns the error and the nil document, whatever it had accumulated, and
\* Refresh returns the error with the EPG bytes and the timestamp untouched
C15_DecodeFailureAborts ==
    [][(pc = "xmltv" /\ \E i \in 1..Len(seen') : DecodeFails(seen'[i]))
          => /\ loadXMLTv(playlist.tracks, seen') = [tv |-> NilTV, err |-> TRUE]
             /\ epg' = NilTV
             /\ pc' = "idle"
             /\ result' = "error"
             /\ UNCHANGED <<epgData, lastRefresh>>]_vars

\* C15 witness: after a successful Refresh, a Refresh has returned the
\* error of an element that failed to decode after a channel that was kept
C15_Witness ==
    /\ pc = "idle"
    /\ result = "error"
    /\ snap.ok
    /\ epg = NilTV
    /\ Len(epgData) > 0
    /\ Len(seen) = 2
    /\ IsKeptChannel(seen[1])
    /\ DecodeFails(seen[2])

(* ==================== further properties of Refresh ===================== *)
\* C16 as claimed: when the retrieval of the playlist or of the EPG source
\* fails, Refresh returns an error to its caller; it does not panic
C16_RetrievalFailureIsError ==
    [][(pc \in {"idle", "epgReader"} /\ pc' \notin {"m3u", "xmltv"})
          => (pc' = "idle" /\ result' = "error")]_vars

(* ================= further properties of the reconciler ================= *)
\* how often the track t stands in the list
Occ(trks, t) == Cardinality({ k \in 1..Len(trks) : trks[k] = t })

\* every track of the list before that has no tvg-id stands at its position
\* in the list after
EmptyIdKept(before, after) ==
    \A k \in 1..Len(before) :
        idOf(before[k]) = sEmpty => (k <= Len(after) /\ after[k] = before[k])

\* C17: a retained track without a tvg-id stays retained: every processTrack
\* call and every OnTrack leave it at its position, and OnPlaylistEnd keeps
\* it in the list
C17_EmptyIdStays ==
    [][/\ \A k \in 1..Len(tracks) :
             idOf(tracks[k]) = sEmpty => Occ(tracks', tracks[k]) >= Occ(tracks, tracks[k])
       /\ OnTrackStep =>
             /\ EmptyIdKept(tracks, tracks')
             /\ \A i \in 1..Len(calls') :
                   EmptyIdKept(Before(i)'.tracks, calls'[i].after.tracks)]_vars

\* C17 witness: while a track without a tvg-id was retained, a track of its
\* Name with a tvg-id was admitted at a better priority, and a later track
\* replaced another retained track in place
C17_Witness ==
    /\ phase = "run"
    /\ \E k \in 1..Len(tracks), j \in 1..Len(input) :
          /\ idOf(tracks[k]) = sEmpty
          /\ input[j].Name = tracks[k].Name
          /\ idOf(input[j]) # sEmpty
          /\ priorities[tracks[k].Name] \in MatchPrios(filters, input[j])
          /\ priorities[tracks[k].Name] \notin MatchPrios(filters, tracks[k])
    /\ \E i \in 1..Len(calls) :
          /\ calls[i].after.tracks # Before(i).tracks
          /\ Len(calls[i].after.tracks) = Len(Before(i).tracks)

\* the i-th processTrack call of the last OnTrack admitted its track at a
\* priority strictly better than the one recorded for its name, and no
\* retained track had the track's non-empty tvg-id
C18_Case(i) ==
    LET T == Last(input)
        b == Before(i)
    IN  /\ T.Name \in DOMAIN b.priorities
        /\ calls[i].priority < b.priorities[T.Name]
        /\ \A k \in 1..Len(b.tracks) :
              idOf(T) = sEmpty \/ idOf(b.tracks[k]) # idOf(T)

\* C18: such a call leaves the retained list as it is, the earlier retained
\* track of the name in it, and changes nothing but the priority recorded
\* for the name, which becomes the priority of the call
C18_PriorityOnlyUpdate ==
    \A i \in 1..Len(calls) :
        C18_Case(i) =>
            /\ calls[i].after.tracks = Before(i).tracks
            /\ \E k \in 1..Len(Before(i).tracks) :
                  Before(i).tracks[k].Name = Last(input).Name
            /\ calls[i].after.priorities =
                  MapPut(Before(i).priorities, Last(input).Name, calls[i].priority)
            /\ (i = Len(calls) /\ phase = "run") =>
                  /\ tracks = Before(i).tracks
                  /\ priorities = calls[i].after.priorities

\* C18 witness: a track with a tvg-id of its own was admitted at a better
\* priority than the one recorded for its name
C18_Witness ==
    /\ phase = "run"
    /\ \E i \in 1..Len(calls) :
          /\ C18_Case(i)
          /\ idOf(Last(input)) # sEmpty
          /\ Len(Before(i).tracks) >= 2

\* the lowest of a non-empty set of priorities
Lowest(S) == CHOOSE p \in S : \A q \in S : p <= q

\* C19: after an OnTrack, every processTrack call after the first has left
\* the retained list and the priority map as they were, and the loader state
\* is the one a single processTrack call at the lowest matching filter index
\* gives (the state before the OnTrack when no filter matches)
C19_FirstMatchOnly ==
    /\ \A i \in 2..Len(calls) : calls[i].after = Before(i)
    /\ (phase = "run" /\ Len(input) > 0) =>
          [tracks |-> tracks, priorities |-> priorities] =
              IF MatchPrios(filters, Last(input)) = {} THEN pre
              ELSE processTrack(pre, Last(input), Lowest(MatchPrios(filters, Last(input))))

\* C19 witness: a track was admitted at the first of two matching filters
\* and changed the loader state there
C19_Witness ==
    /\ phase = "run"
    /\ Len(calls) >= 2
    /\ calls[1].after # pre
    /\ Cardinality(MatchPrios(filters, Last(input))) >= 2

\* C20 as claimed: every retained track has a priority recorded for its
\* Name, in every state of the reconciler and so at OnPlaylistEnd
C20_RetainedHasPriority ==
    \A k \in 1..Len(tracks) : Recorded(priorities, tracks[k])

====
